---- MODULE Spec2Model ----
(***************************************************************************)
(* Model of src/src/main.cpp: the plane/mesh source extraction of          *)
(* computeGeodesics, the stored distance field, the text export and the    *)
(* GUI callback that edits the plane parameters.                           *)
(*                                                                         *)
(* Numbers.  The program computes in double precision; the model computes  *)
(* in exact fixed point, rounding left out:                                *)
(*   - vertex coordinates are integers counting eighths (PosUnit),         *)
(*   - the components of the plane normal count fifths (NormalUnit),       *)
(*   - signed distances and the plane height therefore count fortieths,    *)
(*   - stored vertex distances count 1/32 (PosUnit * GeoRes), rounded      *)
(*     down,                                                               *)
(*   - a double that is NaN is carried by the flag "nan" of its record,    *)
(*     and every comparison with a NaN is false, as in IEEE arithmetic.    *)
(***************************************************************************)
EXTENDS Integers, Sequences, FiniteSets, TLC

VARIABLES
  mesh,                      \* the loaded mesh and its geometry (lines 21-22)
  planeHeight,               \* line 29
  planeThreshold,            \* line 30
  planeNormal,               \* line 31
  currentGeodesicDistances,  \* line 34; <<>> is the VertexData of size 0
  outFile,                   \* the lines of the file written by
                             \* exportGeodesicDistances, <<>>: none written
  sourcePoints,              \* the vector built by the last computeGeodesics
  propagated,                \* the last call of GeodesicAlgorithmExact::propagate
  msg,                       \* the last polyscope warning / error / info
  lastOp,                    \* the handler that ran last ("init": none yet)
  hist,                      \* history: planes used and fields exported
  twin                       \* a second run given the same inputs, whose
                             \* Plane Thickness slider is never moved

vars == <<mesh, planeHeight, planeThreshold, planeNormal,
          currentGeodesicDistances, outFile, sourcePoints,
          propagated, msg, lastOp, hist, twin>>

----------------------------------------------------------------------------
(* Representation of numbers *)

PosUnit == 8
NormalUnit == 5
DistUnit == PosUnit * NormalUnit
\* vertex distances are stored in units of 1/(PosUnit * GeoRes)
GeoRes == 4

Abs(a) == IF a < 0 THEN -a ELSE a
Min(a, b) == IF a <= b THEN a ELSE b

RECURSIVE Gcd(_, _)
Gcd(a, b) == IF b = 0 THEN a ELSE Gcd(b, a % b)

RECURSIVE SqrtFrom(_, _)
\* Newton's iteration downwards from an estimate r >= sqrt(a), r > 0
SqrtFrom(a, r) ==
  LET r2 == (r + a \div r) \div 2
  IN IF r2 >= r THEN r ELSE SqrtFrom(a, r2)
\* floor of the square root
Sqrt(a) == IF a = 0 THEN 0 ELSE SqrtFrom(a, a)
\* the same, given an estimate r >= sqrt(a)
SqrtBelow(a, r) == IF a = 0 THEN 0 ELSE SqrtFrom(a, r)

Vec(a, b, c) == [x |-> a, y |-> b, z |-> c, nan |-> FALSE]
NaNVec == [x |-> 0, y |-> 0, z |-> 0, nan |-> TRUE]
Num(a) == [nan |-> FALSE, v |-> a]
NaN == [nan |-> TRUE, v |-> 0]

----------------------------------------------------------------------------
(* Meshes: what readManifoldSurfaceMesh can load (line 237).  pos[v] is the *)
(* position of vertex v in eighths; edges[i] = <<v1, v2>> is edge i in      *)
(* traversal order with v1 = e.halfedge().vertex() and v2 the twin's vertex.*)
(* Both are flat convex squares cut into two triangles by a diagonal.        *)

\* the unit square [0,1]^2 in the plane z = 0
UnitSquare ==
  [pos   |-> << <<0, 0, 0>>, <<8, 0, 0>>, <<8, 8, 0>>, <<0, 8, 0>> >>,
   edges |-> << <<1, 2>>, <<2, 3>>, <<3, 1>>, <<3, 4>>, <<4, 1>> >>]

\* the square [-1,1]^2 in the plane z = 0
WideSquare ==
  [pos   |-> << <<-8, -8, 0>>, <<8, -8, 0>>, <<8, 8, 0>>, <<-8, 8, 0>> >>,
   edges |-> << <<1, 2>>, <<2, 3>>, <<3, 1>>, <<3, 4>>, <<4, 1>> >>]

Meshes == {UnitSquare, WideSquare}

nVertices(m) == Len(m.pos)
Vertices(m) == 1..Len(m.pos)
Edges(m) == 1..Len(m.edges)

----------------------------------------------------------------------------
(* Vector3 arithmetic of geometry-central, as used by main.cpp *)

\* dot(pos, planeNormal), in fortieths
Dot(p, n) ==
  IF n.nan THEN NaN ELSE Num(p[1] * n.x + p[2] * n.y + p[3] * n.z)

\* a - h for a double a and a finite h
Minus(a, h) == IF a.nan THEN NaN ELSE Num(a.v - h)

\* normalize(v) = v * (1 / norm(v)).  For the zero vector 1/norm is +inf
\* and 0 * inf is NaN in each component.  The edits the model offers have
\* an integer norm that divides NormalUnit times each component, so the
\* quotient below is exact.
normalize(v) ==
  LET n2 == v[1] * v[1] + v[2] * v[2] + v[3] * v[3]
      r  == Sqrt(n2)
  IN IF n2 = 0 THEN NaNVec
     ELSE Vec((v[1] * NormalUnit) \div r, (v[2] * NormalUnit) \div r,
              (v[3] * NormalUnit) \div r)

----------------------------------------------------------------------------
(* computeGeodesics, lines 84-107: the source extraction *)

\* 1e-10 counted in fortieths is 4e-9; for an integer a, a > 4e-9 exactly
\* when a > 0
Tolerance == 0

\* the signed distance of vertex v to the plane (lines 93-94)
SignedDist(m, v, n, h) == Minus(Dot(m.pos[v], n), h)

\* two variants of Crosses: a strict sign test, and no sign test at all
CrossesStrict(dist1, dist2) ==
  /\ ~dist1.nan /\ ~dist2.nan
  /\ dist1.v * dist2.v < 0
  /\ Abs(dist1.v - dist2.v) > Tolerance
CrossesAnySide(dist1, dist2) ==
  /\ ~dist1.nan /\ ~dist2.nan
  /\ Abs(dist1.v - dist2.v) > Tolerance

\* line 97
Crosses(dist1, dist2) ==
  /\ ~dist1.nan /\ ~dist2.nan
  /\ dist1.v * dist2.v <= 0
  /\ Abs(dist1.v - dist2.v) > Tolerance

\* a quotient a/b, b # 0, as the fraction <<numerator, denominator>> in
\* lowest terms with a positive denominator
Quot(a, b) ==
  LET g == Gcd(Abs(a), Abs(b))
      s == IF b < 0 THEN -1 ELSE 1
  IN <<(s * a) \div g, (s * b) \div g>>

\* std::max(0.0, std::min(1.0, t)), line 100
Clamp01(t) ==
  IF t[1] < 0 THEN <<0, 1>> ELSE IF t[1] > t[2] THEN <<1, 1>> ELSE t

\* a variant of IntersectionT: the parameter measured from the other end
IntersectionTSwapped(dist1, dist2) ==
  Clamp01(Quot(dist2.v, dist1.v - dist2.v))

\* lines 99-100
IntersectionT(dist1, dist2) ==
  Clamp01(Quot(dist1.v, dist1.v - dist2.v))

\* SurfacePoint(e, t), line 103
SurfacePoint(e, t) == [edge |-> e, t |-> t]

\* the loop of lines 84-107 from edge i on, acc being sourcePoints so far
RECURSIVE ExtractFrom(_, _, _, _, _)
ExtractFrom(m, n, h, i, acc) ==
  IF i > Len(m.edges) THEN acc
  ELSE LET dist1 == SignedDist(m, m.edges[i][1], n, h)
           dist2 == SignedDist(m, m.edges[i][2], n, h)
       IN ExtractFrom(m, n, h, i + 1,
            IF Crosses(dist1, dist2)
            THEN Append(acc, SurfacePoint(i, IntersectionT(dist1, dist2)))
            ELSE acc)

ExtractSources(m, n, h) == ExtractFrom(m, n, h, 1, <<>>)

----------------------------------------------------------------------------
(* GeodesicAlgorithmExact (geometry-central), lines 115-124.  The library   *)
(* is not part of src/; it is modelled from sections 4.2 and 4.3 of the     *)
(* specification: the distance of a point is the exact shortest-path length *)
(* over the surface to the nearest source, the lowest source index winning  *)
(* ties.  On a flat convex mesh that length is the straight-line distance.  *)
(* Distances are kept in units of 1/(PosUnit * GeoRes), rounded down.       *)

\* t[2] times the vector from the point of parameter t on edge e to
\* vertex v
OffsetScaled(m, v, e, t) ==
  LET p1 == m.pos[m.edges[e][1]]
      p2 == m.pos[m.edges[e][2]]
      q  == m.pos[v]
  IN [i \in 1..3 |-> t[2] * (q[i] - p1[i]) - t[1] * (p2[i] - p1[i])]

\* the length of the vector c / den in units of 1/(PosUnit * GeoRes); the
\* sum of the components' magnitudes bounds the length from above
Length(c, den) ==
  SqrtBelow(((c[1] * c[1] + c[2] * c[2] + c[3] * c[3]) * GeoRes * GeoRes)
               \div (den * den),
            ((Abs(c[1]) + Abs(c[2]) + Abs(c[3])) * GeoRes) \div den + 1)

PointDistance(m, v, s) == Length(OffsetScaled(m, v, s.edge, s.t), s.t[2])

\* the better of the pair best = <<index, distance>> and source k at
\* distance d: a tie keeps the lower index
Better(best, k, d) == IF d < best[2] THEN <<k - 1, d>> ELSE best

\* the nearest of the sources k.. of src to vertex v, best being the
\* nearest of the sources before k
RECURSIVE NearestFrom(_, _, _, _, _)
NearestFrom(m, src, v, k, best) ==
  IF k > Len(src) THEN best
  ELSE NearestFrom(m, src, v, k + 1, Better(best, k, PointDistance(m, v, src[k])))

\* closestSource(SurfacePoint(v)) after propagate(src), src non-empty:
\* <<index of the closest source, counted from 0, its distance>>
closestSource(m, src, v) ==
  NearestFrom(m, src, v, 2, <<0, PointDistance(m, v, src[1])>>)

\* a variant of VertexDistances: the first component of the pair is stored
VertexDistancesFirst(m, src) ==
  [v \in Vertices(m) |-> closestSource(m, src, v)[1]]

\* lines 119-124: distances[v] = closestSource(v).second for every vertex
VertexDistances(m, src) ==
  [v \in Vertices(m) |-> closestSource(m, src, v)[2]]

----------------------------------------------------------------------------
(* Text output, lines 49-70 *)

RECURSIVE Digits(_, _)
\* the last w decimal digits of a, zero padded
Digits(a, w) ==
  IF w = 0 THEN "" ELSE Digits(a \div 10, w - 1) \o ToString(a % 10)

RECURSIVE Pow10(_)
Pow10(k) == IF k = 0 THEN 1 ELSE 10 * Pow10(k - 1)
\* k zeros, k <= 10
Zeros == [k \in 0..10 |-> Digits(0, k)]

\* operator<< of a double in the stream's default format (6 significant
\* digits, trailing zeros dropped); the value is a / 1000
FormatDefault(a) ==
  LET b  == Abs(a)
      ip == b \div 1000
      fr == b % 1000
  IN (IF a < 0 THEN "-" ELSE "") \o ToString(ip) \o
     (IF fr = 0 THEN ""
      ELSE IF fr % 100 = 0 THEN "." \o Digits(fr \div 100, 1)
      ELSE IF fr % 10 = 0 THEN "." \o Digits(fr \div 10, 2)
      ELSE "." \o Digits(fr, 3))

\* operator<< after std::fixed << std::setprecision(10) (line 59); the
\* value is a / 10^dec with dec <= 10
FormatFixed10(a, dec) ==
  LET b == Abs(a)
  IN (IF a < 0 THEN "-" ELSE "") \o ToString(b \div Pow10(dec)) \o "." \o
     Digits(b % Pow10(dec), dec) \o Zeros[10 - dec]

\* a component of the plane normal, counted in fifths
FormatNormal(n, k) == IF n.nan THEN "nan" ELSE FormatDefault(k * (1000 \div NormalUnit))
FormatHeight(h) == FormatDefault(h * (1000 \div DistUnit))
FormatPos(p) == FormatFixed10(p * (1000 \div PosUnit), 3)
FormatDistance(g) == FormatFixed10(g * (100000 \div (PosUnit * GeoRes)), 5)

\* lines 50-56
HeaderLines(m, n, h) ==
  << "# Geodesic distances from plane",
     "# Plane normal: " \o FormatNormal(n, n.x) \o " " \o FormatNormal(n, n.y)
        \o " " \o FormatNormal(n, n.z),
     "# Plane height: " \o FormatHeight(h),
     "# Number of vertices: " \o ToString(nVertices(m)),
     "#",
     "# Format: vertex_index x y z geodesic_distance",
     "" >>

\* lines 64-68, for the vertex numbered v (vIdx = v - 1)
VertexLine(m, dist, v) ==
  ToString(v - 1) \o " " \o FormatPos(m.pos[v][1]) \o " " \o
  FormatPos(m.pos[v][2]) \o " " \o FormatPos(m.pos[v][3]) \o " " \o
  FormatDistance(dist[v])

\* lines 60-70
VertexLines(m, dist) == [v \in Vertices(m) |-> VertexLine(m, dist, v)]

FileText(m, n, h, dist) == HeaderLines(m, n, h) \o VertexLines(m, dist)

----------------------------------------------------------------------------
(* Inputs *)

\* line 29: -0.975, in fortieths
InitPlaneHeight == -39

\* values of the Plane Height slider (range -1..1, line 160), in fortieths
HeightSeq == <<20, 0, -40, 10, 40>>
\* how many of them a run may choose
NumHeights == 2
Heights == {HeightSeq[i] : i \in 1..Min(NumHeights, Len(HeightSeq))}

\* components typed into the Normal field
NormalEditSeq == << <<0, 0, 0>>, <<3, 4, 0>>, <<0, 0, 2>>, <<0, -3, 4>> >>
\* how many of them a run may choose
NumNormalEdits == 2
NormalEdits == {NormalEditSeq[i] : i \in 1..Min(NumNormalEdits, Len(NormalEditSeq))}

\* values of the Plane Thickness slider (range 0.001..0.1, line 166), in
\* thousandths
Thicknesses == {100}

\* lines 180, 185, 190
PresetNormals == {Vec(0, 0, NormalUnit), Vec(0, NormalUnit, 0), Vec(NormalUnit, 0, 0)}


\* the planes a run can reach: line 31, the presets, the normalized edits;
\* line 29 and the slider's values
PlaneNormals ==
  PresetNormals \cup {Vec(0, NormalUnit, 0)} \cup {normalize(v) : v \in NormalEdits}
PlaneHeights == Heights \cup {InitPlaneHeight}

\* ExtractSources and VertexDistances are functions of the mesh and the
\* plane alone; they are tabulated once over the reachable planes
SourceTable ==
  [m \in Meshes, n \in PlaneNormals, h \in PlaneHeights |-> ExtractSources(m, n, h)]
FieldTable ==
  [m \in Meshes, n \in PlaneNormals, h \in PlaneHeights |->
     IF SourceTable[m, n, h] = <<>> THEN <<>>
     ELSE VertexDistances(m, SourceTable[m, n, h])]

----------------------------------------------------------------------------
(* The globals of main.cpp as one record, so that a handler is a function   *)
(* from globals to globals and can be run on both runs of the model.        *)

World ==
  [planeHeight |-> planeHeight, planeThreshold |-> planeThreshold,
   planeNormal |-> planeNormal,
   currentGeodesicDistances |-> currentGeodesicDistances,
   outFile |-> outFile,
   sourcePoints |-> sourcePoints, propagated |-> propagated,
   msg |-> msg, hist |-> hist]

Becomes(w) ==
  /\ planeHeight' = w.planeHeight
  /\ planeThreshold' = w.planeThreshold
  /\ planeNormal' = w.planeNormal
  /\ currentGeodesicDistances' = w.currentGeodesicDistances
  /\ outFile' = w.outFile
  /\ sourcePoints' = w.sourcePoints
  /\ propagated' = w.propagated
  /\ msg' = w.msg
  /\ hist' = w.hist

\* line 30: 0.01, in thousandths
InitPlaneThreshold == 10
\* line 31
InitPlaneNormal == Vec(0, NormalUnit, 0)
\* line 143; the model leaves the Filename field as it is
exportFilename == "geodesic_distances.txt"

NoCall == [called |-> FALSE, sources |-> <<>>]
ThePlane(w) == [normal |-> w.planeNormal, height |-> w.planeHeight]

WarnNoSources == "warning: No edges intersect with the plane! Adjust plane parameters."
WarnNotComputed == "warning: No geodesic distances computed yet. Please compute geodesics first."
ErrorOpen == "error: Failed to open file for writing: " \o exportFilename
InfoExported == "info: Exported geodesic distances to: " \o exportFilename
InfoComputed(k) ==
  "info: Computed geodesic distances from plane with " \o ToString(k) \o
  " edge intersection points"

InitWorld ==
  [planeHeight |-> InitPlaneHeight, planeThreshold |-> InitPlaneThreshold,
   planeNormal |-> InitPlaneNormal,
   currentGeodesicDistances |-> <<>>,
   outFile |-> <<>>,
   sourcePoints |-> <<>>, propagated |-> NoCall, msg |-> "",
   hist |-> [succeeded |-> FALSE,
             fieldPlane |-> [normal |-> InitPlaneNormal, height |-> InitPlaneHeight],
             exported |-> [dist |-> <<>>,
                           plane |-> [normal |-> InitPlaneNormal,
                                      height |-> InitPlaneHeight]]]]

\* a handler starts with no local source vector, no propagate call made
\* and no message shown
Enter(w) == [w EXCEPT !.sourcePoints = <<>>, !.propagated = NoCall, !.msg = ""]

----------------------------------------------------------------------------
(* computeGeodesics, lines 77-137 *)

\* a variant without the early return of line 111
computeGeodesicsNoReturn(m, w) ==
  LET src == ExtractSources(m, w.planeNormal, w.planeHeight)
  IN [w EXCEPT !.sourcePoints = src,
               !.propagated = [called |-> TRUE, sources |-> src],
               !.currentGeodesicDistances =
                  IF src = <<>> THEN [v \in Vertices(m) |-> 0]
                  ELSE VertexDistances(m, src),
               !.msg = IF src = <<>> THEN WarnNoSources ELSE InfoComputed(Len(src)),
               !.hist = [w.hist EXCEPT !.succeeded = TRUE,
                                       !.fieldPlane = ThePlane(w)]]

\* a variant that widens the plane by planeThreshold (thousandths, rounded
\* down to fortieths) before it looks for crossings
computeGeodesicsThick(m, w) ==
  LET src == ExtractSources(m, w.planeNormal,
                            w.planeHeight + (w.planeThreshold * DistUnit) \div 1000)
  IN IF src = <<>>
     THEN [w EXCEPT !.sourcePoints = src, !.msg = WarnNoSources]
     ELSE [w EXCEPT !.sourcePoints = src,
                    !.propagated = [called |-> TRUE, sources |-> src],
                    !.currentGeodesicDistances = VertexDistances(m, src),
                    !.msg = InfoComputed(Len(src)),
                    !.hist = [w.hist EXCEPT !.succeeded = TRUE,
                                            !.fieldPlane = ThePlane(w)]]

computeGeodesics(m, w) ==
  LET src == SourceTable[m, w.planeNormal, w.planeHeight]      \* 79-107
  IN IF src = <<>>                                             \* 109-112
     THEN [w EXCEPT !.sourcePoints = src, !.msg = WarnNoSources]
     ELSE [w EXCEPT !.sourcePoints = src,
                    !.propagated = [called |-> TRUE, sources |-> src],  \* 116
                    !.currentGeodesicDistances =                        \* 119-127
                       FieldTable[m, w.planeNormal, w.planeHeight],
                    !.msg = InfoComputed(Len(src)),                     \* 135
                    !.hist = [w.hist EXCEPT !.succeeded = TRUE,
                                            !.fieldPlane = ThePlane(w)]]

----------------------------------------------------------------------------
(* exportGeodesicDistances, lines 37-74.  opened: whether the ofstream of  *)
(* line 43 could be opened.                                                *)

\* a variant without the size check of line 38
exportNoCheck(m, w, opened) ==
  IF ~opened THEN [w EXCEPT !.msg = ErrorOpen]
  ELSE [w EXCEPT
          !.outFile =
             HeaderLines(m, w.planeNormal, w.planeHeight) \o
             (IF Len(w.currentGeodesicDistances) = 0 THEN <<>>
              ELSE VertexLines(m, w.currentGeodesicDistances)),
          !.msg = InfoExported,
          !.hist.exported =
             [dist |-> w.currentGeodesicDistances, plane |-> w.hist.fieldPlane]]

exportGeodesicDistances(m, w, opened) ==
  IF Len(w.currentGeodesicDistances) = 0                       \* 38-41
  THEN [w EXCEPT !.msg = WarnNotComputed]
  ELSE IF ~opened                                              \* 44-47
  THEN [w EXCEPT !.msg = ErrorOpen]
  ELSE [w EXCEPT
          !.outFile =                             \* 49-72
             FileText(m, w.planeNormal, w.planeHeight, w.currentGeodesicDistances),
          !.msg = InfoExported,                                \* 73
          !.hist.exported =
             [dist |-> w.currentGeodesicDistances, plane |-> w.hist.fieldPlane]]

----------------------------------------------------------------------------
(* myCallback, lines 142-201: one function per widget *)

\* lines 152-156: InputFloat3 returned true with the components v
OnNormal(w, v) == [w EXCEPT !.planeNormal = normalize(v)]
\* lines 159-162, h the slider's value
OnPlaneHeight(w, h) == [w EXCEPT !.planeHeight = h]
\* lines 165-168
OnPlaneThickness(w, th) == [w EXCEPT !.planeThreshold = th]
\* lines 172-174
OnCompute(m, w) == computeGeodesics(m, w)
\* lines 179-182, 184-187, 189-192: the button sets the normal n
OnPreset(m, w, n) == computeGeodesics(m, [w EXCEPT !.planeNormal = n])
\* lines 198-200
OnExport(m, w, opened) == exportGeodesicDistances(m, w, opened)

----------------------------------------------------------------------------
(* The state machine *)

Init ==
  /\ mesh \in Meshes
  /\ planeHeight = InitWorld.planeHeight
  /\ planeThreshold = InitWorld.planeThreshold
  /\ planeNormal = InitWorld.planeNormal
  /\ currentGeodesicDistances = InitWorld.currentGeodesicDistances
  /\ outFile = InitWorld.outFile
  /\ sourcePoints = InitWorld.sourcePoints
  /\ propagated = InitWorld.propagated
  /\ msg = InitWorld.msg
  /\ hist = InitWorld.hist
  /\ lastOp = "init"
  /\ twin = InitWorld

\* a handler has run: it left this run's globals as w and the twin's as t
Step(w, t, op) ==
  /\ \E x \in {w} : Becomes(x)
  /\ twin' = t
  /\ lastOp' = op
  /\ UNCHANGED mesh

\* main, line 246: the first computeGeodesics, before the GUI is shown
Main ==
  /\ lastOp = "init"
  /\ Step(computeGeodesics(mesh, Enter(World)),
          computeGeodesics(mesh, Enter(twin)), "compute")

EditNormal ==
  /\ lastOp # "init"
  /\ \E v \in NormalEdits :
       Step(OnNormal(Enter(World), v), OnNormal(Enter(twin), v), "edit")

SlidePlaneHeight ==
  /\ lastOp # "init"
  /\ \E h \in Heights :
       Step(OnPlaneHeight(Enter(World), h), OnPlaneHeight(Enter(twin), h), "edit")

\* the slider moves in this run only; the twin just draws its frame
SlidePlaneThickness ==
  /\ lastOp # "init"
  /\ \E th \in Thicknesses :
       Step(OnPlaneThickness(Enter(World), th), Enter(twin), "edit")

PressCompute ==
  /\ lastOp # "init"
  /\ Step(OnCompute(mesh, Enter(World)), OnCompute(mesh, Enter(twin)), "compute")

PressPreset ==
  /\ lastOp # "init"
  /\ \E n \in PresetNormals :
       Step(OnPreset(mesh, Enter(World), n), OnPreset(mesh, Enter(twin), n),
            "compute")

PressExport ==
  /\ lastOp # "init"
  /\ \E opened \in BOOLEAN :
       Step(OnExport(mesh, Enter(World), opened),
            OnExport(mesh, Enter(twin), opened), "export")

Next ==
  \/ Main
  \/ EditNormal
  \/ SlidePlaneHeight
  \/ SlidePlaneThickness
  \/ PressCompute
  \/ PressPreset
  \/ PressExport

Spec == Init /\ [][Next]_vars

----------------------------------------------------------------------------
(* Properties.  In a state with lastOp = "compute" the last step ran      *)
(* computeGeodesics, which leaves planeNormal and planeHeight alone, so   *)
(* they are the plane that call used and sourcePoints is what it built.   *)

\* signed distances of the two ends of edge i to the current plane
D1(i) == SignedDist(mesh, mesh.edges[i][1], planeNormal, planeHeight)
D2(i) == SignedDist(mesh, mesh.edges[i][2], planeNormal, planeHeight)
Emitted(i) == \E k \in 1..Len(sourcePoints) : sourcePoints[k].edge = i

\* C1: computeGeodesics emits a point on edge e exactly when d1*d2 <= 0
\* and |d1 - d2| > tolerance; then there is one point for e, its parameter
\* is clamp(d1/(d1-d2), 0, 1), and the points come in edge traversal order.
C1_EmitsExactlyTheCrossings ==
  lastOp = "compute" =>
    /\ \A i \in Edges(mesh) :
         Emitted(i) <=> /\ ~D1(i).nan /\ ~D2(i).nan
                        /\ D1(i).v * D2(i).v <= 0
                        /\ Abs(D1(i).v - D2(i).v) > Tolerance
    /\ \A k, l \in 1..Len(sourcePoints) :
         k < l => sourcePoints[k].edge < sourcePoints[l].edge
    /\ \A k \in 1..Len(sourcePoints) :
         LET t   == sourcePoints[k].t
             d1  == D1(sourcePoints[k].edge).v
             den == d1 - D2(sourcePoints[k].edge).v
         IN /\ t[2] > 0 /\ 0 <= t[1] /\ t[1] <= t[2]
            /\ IF d1 * den < 0 THEN t[1] = 0                \* quotient < 0
               ELSE IF d1 * den > den * den THEN t[1] = t[2] \* quotient > 1
               ELSE t[1] * den = t[2] * d1

\* a crossing found that is not at the first edge, with a crossing at an
\* end of an edge among them
C1_Witness ==
  /\ lastOp = "compute"
  /\ Len(sourcePoints) >= 2
  /\ \E k \in 1..Len(sourcePoints) : sourcePoints[k].t \in {<<0, 1>>, <<1, 1>>}
  /\ \E i \in Edges(mesh) : ~Emitted(i)

C3_NoSourcesNoPropagation ==
  /\ [](propagated.called => propagated.sources # <<>>)
  /\ [][(lastOp' = "compute" /\ sourcePoints' = <<>>)
          => /\ ~propagated'.called
             /\ msg' = WarnNoSources
             /\ currentGeodesicDistances' = currentGeodesicDistances]_vars

\* a computation without sources after one that stored a field
C3_Witness ==
  /\ lastOp = "compute"
  /\ sourcePoints = <<>>
  /\ currentGeodesicDistances # <<>>

\* the field of the plane of the last successful computeGeodesics
LastField ==
  VertexDistances(mesh,
    ExtractSources(mesh, hist.fieldPlane.normal, hist.fieldPlane.height))

\* C4: while no computeGeodesics has succeeded an export warns and writes
\* no file; afterwards a written file holds one line per vertex with the
\* distances of the last successful computeGeodesics.
C4_ExportSeesLastFieldOrNothing ==
  /\ ~hist.succeeded =>
       /\ outFile = <<>>
       /\ (lastOp = "export" => msg = WarnNotComputed)
  /\ (lastOp = "export" /\ msg = InfoExported) =>
       /\ hist.succeeded
       /\ Len(outFile) = 7 + nVertices(mesh)
       /\ \A v \in Vertices(mesh) : outFile[7 + v] = VertexLine(mesh, LastField, v)

\* a file written after a later computation had found no sources
C4_Witness ==
  /\ lastOp = "export"
  /\ msg = InfoExported
  /\ ThePlane(World) # hist.fieldPlane
  /\ ExtractSources(mesh, planeNormal, planeHeight) = <<>>

\* an export refused because nothing was computed, the first
\* computeGeodesics of main included
C4_WitnessNotComputed ==
  /\ lastOp = "export"
  /\ ~hist.succeeded

\* a header line 2 written from a NaN normal
NaNHeader == HeaderLines(UnitSquare, NaNVec, 0)[2]

\* C5: an export that finds the stored field as it was at the previous
\* export writes the same file, byte for byte (stated for the exports
\* made while the plane normal is finite).
C5_SameFieldSameFile ==
  [][(/\ lastOp' = "export"
      /\ msg' = InfoExported
      /\ outFile # <<>>
      /\ hist.exported.dist = currentGeodesicDistances
      /\ ~planeNormal.nan
      /\ outFile[2] # NaNHeader)
        => outFile' = outFile]_vars

\* the unit square cut through its midline, along x or along y
MidlineCut ==
  /\ lastOp = "compute"
  /\ mesh = UnitSquare
  /\ planeHeight = DistUnit \div 2
  /\ planeNormal \in {Vec(NormalUnit, 0, 0), Vec(0, NormalUnit, 0)}

\* C6 as stated: the midline cut of the unit square gives two points, each
\* at parameter 1/2.
C6_TwoPointsAtHalf ==
  MidlineCut =>
    /\ Len(sourcePoints) = 2
    /\ \A k \in 1..Len(sourcePoints) : sourcePoints[k].t = <<1, 2>>

\* C6 amended: it gives three points, on the two sides that cross the
\* midline and on the diagonal, each at parameter 1/2.
C6_ThreePointsAtHalf ==
  MidlineCut =>
    LET axis == IF planeNormal.x # 0 THEN 1 ELSE 2
    IN /\ Len(sourcePoints) = 3
       /\ \A i \in Edges(mesh) :
            Emitted(i) <=>
              mesh.pos[mesh.edges[i][1]][axis] # mesh.pos[mesh.edges[i][2]][axis]
       /\ Emitted(3)
       /\ \A k \in 1..Len(sourcePoints) : sourcePoints[k].t = <<1, 2>>

C6_Witness == MidlineCut /\ sourcePoints # <<>>

\* C7: whenever computeGeodesics extracts sources the plane normal is a
\* unit vector.
C7_NormalIsUnit ==
  lastOp = "compute" =>
    /\ ~planeNormal.nan
    /\ planeNormal.x * planeNormal.x + planeNormal.y * planeNormal.y
         + planeNormal.z * planeNormal.z = NormalUnit * NormalUnit

\* C8: after a successful computeGeodesics every stored distance is >= 0,
\* and it is 0 at each vertex where a source of parameter 0 or 1 lies.
C8_NonNegativeZeroAtSources ==
  (lastOp = "compute" /\ propagated.called) =>
    /\ \A v \in Vertices(mesh) : currentGeodesicDistances[v] >= 0
    /\ \A k \in 1..Len(propagated.sources) :
         LET s == propagated.sources[k]
         IN /\ (s.t = <<0, 1>> => currentGeodesicDistances[mesh.edges[s.edge][1]] = 0)
            /\ (s.t = <<1, 1>> => currentGeodesicDistances[mesh.edges[s.edge][2]] = 0)

\* a field with sources at both kinds of edge ends and a vertex off the plane
C8_Witness ==
  /\ lastOp = "compute"
  /\ propagated.called
  /\ \E k \in 1..Len(propagated.sources) : propagated.sources[k].t = <<0, 1>>
  /\ \E k \in 1..Len(propagated.sources) : propagated.sources[k].t = <<1, 1>>
  /\ \E v \in Vertices(mesh) : currentGeodesicDistances[v] > 0

\* C9: the plane normal and height in the header of a written file are
\* those of the plane whose field the file holds (stated for the files
\* written while the plane normal is finite).
C9_HeaderIsPlaneOfField ==
  (outFile # <<>> /\ outFile[2] # NaNHeader) =>
    LET head == HeaderLines(mesh, hist.exported.plane.normal,
                            hist.exported.plane.height)
    IN outFile[2] = head[2] /\ outFile[3] = head[3]

====
